---- MODULE Spec2Model ----
(***************************************************************************)
(* Model of universe/provider.go: provider-name resolution, resource-type *)
(* registration and provider configuration.                               *)
(*                                                                         *)
(* Go strings are modelled as sequences of one-character strings, so that  *)
(* prefix tests, regular-expression matching, upper-casing and field       *)
(* splitting are computed character by character.                          *)
(***************************************************************************)
EXTENDS Integers, Sequences, FiniteSets, TLC

VARIABLES
    environ,        \* the process environment: a function name -> value
    args0,          \* os.Args[0]
    pc,             \* position inside Provider(): "start", "named", "done"
    providerName,   \* Provider(): local providerName
    resourceMap,    \* schema.Provider.ResourcesMap (name -> handler template)
    call,           \* configure entry point called: "none", "plain", "v2"
    d,              \* the ResourceLike reader of the configure call
    meta,           \* first return value of the configure call
    err,            \* error returned by providerConfigure (plain call)
    diags           \* diag.Diagnostics returned by providerConfigureV2

vars == <<environ, args0, pc, providerName, resourceMap, call, d, meta, err, diags>>

provVars == <<environ, args0, pc, providerName, resourceMap>>
confVars == <<call, d, meta, err, diags>>

-----------------------------------------------------------------------------
(* Bounds of the model *)

\* longest exhaustively enumerated tail after "terraform-provider-" (in pieces)
MaxTail == 4
\* most dotted components of the enumerated version suffixes
MaxComponents == 4
\* longest exhaustively enumerated value of the resource-types variable
MaxRT == 4

-----------------------------------------------------------------------------
(* Strings *)

Digits == {"0", "1", "2", "3", "4", "5", "6", "7", "8", "9"}

\* unicode.IsSpace, restricted to the ASCII white space
Space == {" ", "\t", "\n", "\r"}

Lower == <<"a","b","c","d","e","f","g","h","i","j","k","l","m",
           "n","o","p","q","r","s","t","u","v","w","x","y","z">>
Upper == <<"A","B","C","D","E","F","G","H","I","J","K","L","M",
           "N","O","P","Q","R","S","T","U","V","W","X","Y","Z">>

ToUpperChar(c) ==
    IF \E i \in 1..Len(Lower) : Lower[i] = c
    THEN Upper[CHOOSE i \in 1..Len(Lower) : Lower[i] = c]
    ELSE c

\* strings.ToUpper
ToUpper(s) == [i \in 1..Len(s) |-> ToUpperChar(s[i])]

\* strings.HasPrefix
HasPrefix(s, prefix) ==
    /\ Len(s) >= Len(prefix)
    /\ \A i \in 1..Len(prefix) : s[i] = prefix[i]

\* s[i:] in Go terms, with i counted from 1
From(s, i) == SubSeq(s, i, Len(s))

RECURSIVE Concat(_)
Concat(ss) == IF ss = <<>> THEN <<>> ELSE Head(ss) \o Concat(Tail(ss))

SeqsUpTo(S, n) == UNION {[1..k -> S] : k \in 0..n}

-----------------------------------------------------------------------------
(* Program constants *)

DefaultProviderName == <<"u","n","i","v","e","r","s","e">>

EnvProviderNameVar ==
    <<"T","E","R","R","A","F","O","R","M","_","U","N","I","V","E","R","S","E",
      "_","P","R","O","V","I","D","E","R","N","A","M","E">>

\* the literal the regular expression starts with
BinaryPrefix ==
    <<"t","e","r","r","a","f","o","r","m","-","p","r","o","v","i","d","e","r","-">>

PreLiteral == <<"-","p","r","e">>

-----------------------------------------------------------------------------
(* os.LookupEnv *)

LookupEnv(env, name) ==
    IF name \in DOMAIN env
    THEN [val |-> env[name], ok |-> TRUE]
    ELSE [val |-> <<>>, ok |-> FALSE]

-----------------------------------------------------------------------------
(* filepath.Base *)

RECURSIVE StripTrailingSlashes(_)
StripTrailingSlashes(p) ==
    IF Len(p) > 0 /\ p[Len(p)] = "/"
    THEN StripTrailingSlashes(SubSeq(p, 1, Len(p) - 1))
    ELSE p

Base(path) ==
    IF path = <<>> THEN <<".">>
    ELSE LET p == StripTrailingSlashes(path)
             slashes == {i \in 1..Len(p) : p[i] = "/"}
             q == IF slashes = {} THEN p
                  ELSE From(p, 1 + CHOOSE i \in slashes : \A j \in slashes : j <= i)
         IN  IF q = <<>> THEN <<"/">> ELSE q

-----------------------------------------------------------------------------
\* The regular expression
\*   ^terraform-provider-(?:([^\d]+))(?:-(\d+(?:\.\d+(?:\.\d+)?)?))?(?:-pre\d*)?$
\* Each piece is the set of positions a match of the piece can end at when
\* it starts at position p of s (a position is the index of the next unread
\* character).

\* \d+ from p
DigitsEnds(s, p) ==
    {q \in (p + 1)..(Len(s) + 1) : \A i \in p..(q - 1) : s[i] \in Digits}

\* \d* from p
DigitsStarEnds(s, p) == {p} \cup DigitsEnds(s, p)

\* \.\d+ from any of the positions ps
DotDigitsEnds(s, ps) ==
    UNION {DigitsEnds(s, q + 1) : q \in {x \in ps : x <= Len(s) /\ s[x] = "."}}

\* a version of at most two components: (?:-(\d+(?:\.\d+)?))?
VersionEndsTwoComponents(s, p) ==
    LET c1 == IF p <= Len(s) /\ s[p] = "-" THEN DigitsEnds(s, p + 1) ELSE {}
        c2 == DotDigitsEnds(s, c1)
    IN  {p} \cup c1 \cup c2

\* a version of up to four components
VersionEndsFourComponents(s, p) ==
    LET c1 == IF p <= Len(s) /\ s[p] = "-" THEN DigitsEnds(s, p + 1) ELSE {}
        c2 == DotDigitsEnds(s, c1)
        c3 == DotDigitsEnds(s, c2)
        c4 == DotDigitsEnds(s, c3)
    IN  {p} \cup c1 \cup c2 \cup c3 \cup c4

\* (?:-(\d+(?:\.\d+(?:\.\d+)?)?))? from p
VersionEnds(s, p) ==
    LET c1 == IF p <= Len(s) /\ s[p] = "-" THEN DigitsEnds(s, p + 1) ELSE {}
        c2 == DotDigitsEnds(s, c1)
        c3 == DotDigitsEnds(s, c2)
    IN  {p} \cup c1 \cup c2 \cup c3

\* (?:-pre\d*)? from p
PreEnds(s, p) ==
    {p} \cup (IF HasPrefix(From(s, p), PreLiteral)
              THEN DigitsStarEnds(s, p + Len(PreLiteral))
              ELSE {})

\* what follows the name group, up to $
SuffixMatches(s, p) ==
    \E q \in VersionEnds(s, p) : (Len(s) + 1) \in PreEnds(s, q)

\* the lengths the group ([^\d]+) can take in a successful match
NameLengths(s) ==
    IF ~HasPrefix(s, BinaryPrefix) THEN {}
    ELSE {k \in 1..(Len(s) - Len(BinaryPrefix)) :
            /\ \A i \in 1..k : s[Len(BinaryPrefix) + i] \notin Digits
            /\ SuffixMatches(s, Len(BinaryPrefix) + k + 1)}

\* re.FindStringSubmatch: <<>> (nil) without a match, else <<whole, group 1>>
\* (group 2 is never read).  [^\d]+ is greedy: the longest name that lets
\* the rest match is the one captured.
FindStringSubmatch(s) ==
    LET ks == NameLengths(s)
    IN  IF ks = {} THEN <<>>
        ELSE LET k == CHOOSE x \in ks : \A y \in ks : y <= x
             IN  <<s, SubSeq(s, Len(BinaryPrefix) + 1, Len(BinaryPrefix) + k)>>

-----------------------------------------------------------------------------
(* getProviderNameFromBinaryOrEnvironment *)

\* an empty override treated as no override
getProviderNameSkippingEmptyOverride(env, arg0) ==
    LET e == LookupEnv(env, EnvProviderNameVar)
        binaryName == Base(arg0)
        s == FindStringSubmatch(binaryName)
    IN  IF e.ok /\ e.val # <<>> THEN e.val
        ELSE IF Len(s) >= 2 THEN s[2]
        ELSE DefaultProviderName

getProviderNameFromBinaryOrEnvironment(env, arg0) ==
    LET e == LookupEnv(env, EnvProviderNameVar)
        binaryName == Base(arg0)
        s == FindStringSubmatch(binaryName)
    IN  IF e.ok THEN e.val
        ELSE IF Len(s) >= 2 THEN s[2]
        ELSE DefaultProviderName

-----------------------------------------------------------------------------
(* getResourceTypeNamesFromEnvironment *)

Underscore == <<"_">>

ResourceTypesVarName(name) ==
    <<"T","E","R","R","A","F","O","R","M","_">> \o ToUpper(name)
        \o <<"_","R","E","S","O","U","R","C","E","T","Y","P","E","S">>

\* strings.Fields: scan left to right, cut at every run of white space
RECURSIVE FieldsFrom(_, _, _, _)
FieldsFrom(s, i, cur, acc) ==
    LET flushed == IF cur = <<>> THEN acc ELSE Append(acc, cur)
    IN  IF i > Len(s) THEN flushed
        ELSE IF s[i] \in Space THEN FieldsFrom(s, i + 1, <<>>, flushed)
        ELSE FieldsFrom(s, i + 1, Append(cur, s[i]), acc)

Fields(s) == FieldsFrom(s, 1, <<>>, <<>>)

\* the prefix added without looking at the name
ResourceTypeNameAlwaysPrefixed(x, prefix) == prefix \o x

\* the name taken as written
ResourceTypeNameAsWritten(x, prefix) == x

\* the body of the loop: rtn
ResourceTypeName(x, prefix) ==
    IF ~HasPrefix(x, prefix) THEN prefix \o x ELSE x

\* result[k] = true
SetTrue(m, k) == [x \in DOMAIN m \cup {k} |-> TRUE]

RECURSIVE AddResourceTypes(_, _, _)
AddResourceTypes(result, f, prefix) ==
    IF f = <<>> THEN result
    ELSE AddResourceTypes(SetTrue(result, ResourceTypeName(Head(f), prefix)),
                          Tail(f), prefix)

getResourceTypeNamesFromEnvironment(env, name) ==
    LET result == [x \in {name} |-> TRUE]
        prefix == name \o Underscore
        e == LookupEnv(env, ResourceTypesVarName(name))
    IN  IF ~e.ok THEN result
        ELSE AddResourceTypes(result, Fields(e.val), prefix)

\* getResourceMap: every name is bound to the same resourceCustom() template
getResourceMap(env, name) ==
    [resourceName \in DOMAIN getResourceTypeNamesFromEnvironment(env, name)
        |-> "resourceCustom"]

-----------------------------------------------------------------------------
(* Inputs of Provider(): the process path and the environment *)

Unset == "unset"

\* an environment holding the given <<name, value>> pairs
EnvOf(pairs) ==
    [n \in {pr[1] : pr \in pairs} |-> (CHOOSE pr \in pairs : pr[1] = n)[2]]

OverridePairs(o) == IF o = Unset THEN {} ELSE {<<EnvProviderNameVar, o>>}

OverrideInputs == {Unset, <<>>, <<"b","_","2">>}

\* tails after "terraform-provider-", every concatenation of a few pieces
TailPieces == {<<"a">>, <<"-">>, <<".">>, <<"1">>, PreLiteral}

ExhaustiveTails == {Concat(ps) : ps \in SeqsUpTo(TailPieces, MaxTail)}

\* tails built as name, version-like suffix, pre-release-like suffix, rest
RECURSIVE JoinDots(_)
JoinDots(cs) ==
    IF Len(cs) = 1 THEN cs[1] ELSE cs[1] \o <<".">> \o JoinDots(Tail(cs))

ComponentInputs == {<<"1">>, <<"2","0">>}

VersionInputs ==
    {<<>>} \cup {<<"-">> \o JoinDots(cs) :
                    cs \in UNION {[1..k -> ComponentInputs] : k \in 1..MaxComponents}}

NameInputs ==
    {<<"a">>, <<"a","b">>, <<"a","-">>, <<"a",".","b">>, <<"-">>,
     <<"a","-","p","r","e">>}

PreInputs ==
    {<<>>, PreLiteral, PreLiteral \o <<"1">>, PreLiteral \o <<"1","2">>}

RestInputs == {<<>>, <<"x">>}

StructuredTails ==
    {n \o v \o p \o r :
        n \in NameInputs, v \in VersionInputs, p \in PreInputs, r \in RestInputs}

DebugTest == <<"d","e","b","u","g",".","t","e","s","t">>

OtherBases ==
    {DebugTest, <<>>,
     SubSeq(BinaryPrefix, 1, Len(BinaryPrefix) - 1),
     <<"x">> \o BinaryPrefix \o <<"a">>,
     <<"T">> \o Tail(BinaryPrefix) \o <<"a">>}

DirInputs ==
    {<<>>, <<"/">>, <<".","/">>, <<"/","o","p","t","/","v","1","/">>,
     BinaryPrefix \o <<"b","/">>}

TrailInputs == {<<>>, <<"/">>, <<"/","/">>}

PathBases ==
    {BinaryPrefix \o <<"a">>,
     BinaryPrefix \o <<"a","b","-","1",".","2",".","3","-","p","r","e","4">>,
     DebugTest, <<>>}

Args0Inputs ==
    {BinaryPrefix \o t : t \in ExhaustiveTails \cup StructuredTails}
    \cup OtherBases
    \cup {dir \o b \o tr : dir \in DirInputs, b \in PathBases, tr \in TrailInputs}

\* values of a resource-types variable
RTChars == {"a", "b", "_", " ", "\t"}

RTValueInputs == SeqsUpTo(RTChars, MaxRT)

\* the names such a variable can have in the environment: the one derived
\* from "a", from "", from "universe", and one in the wrong case
RTNameInputs ==
    {ResourceTypesVarName(<<"a">>), ResourceTypesVarName(<<>>),
     ResourceTypesVarName(DefaultProviderName),
     <<"T","E","R","R","A","F","O","R","M","_","a","_",
       "R","E","S","O","U","R","C","E","T","Y","P","E","S">>}

\* process paths and overrides giving the identities "a", "universe", ""
RegistryArgs0 == {BinaryPrefix \o <<"a","-","1",".","2">>, DebugTest}

RegistryOverrides == {Unset, <<>>}

Widget == <<"w","i","d","g","e","t">>

\* the documented example: "foo widget_bar" under the identity widget
ExampleInputs ==
    {[args0 |-> BinaryPrefix \o Widget,
      environ |-> EnvOf({<<ResourceTypesVarName(Widget),
           <<"f","o","o"," ","w","i","d","g","e","t","_","b","a","r">>>>})],
     [args0 |-> DebugTest,
      environ |-> EnvOf({<<EnvProviderNameVar, Widget>>,
           <<ResourceTypesVarName(Widget),
             <<" ","w","i","d","g","e","t","\n","w","i","d","g","e","t","_",
               "\r","\t","f","o","o"," ","f","o","o"," ">>>>})],
     [args0 |-> DebugTest,
      environ |-> EnvOf({<<ResourceTypesVarName(DefaultProviderName),
           <<"u","n","i","v","e","r","s","e","_","x"," ","y">>>>})]}

ProviderInputs ==
    {[args0 |-> p, environ |-> EnvOf(OverridePairs(o))] :
        p \in Args0Inputs, o \in OverrideInputs}
    \cup {[args0 |-> p, environ |-> EnvOf(OverridePairs(o) \cup {<<n, v>>})] :
        p \in RegistryArgs0, o \in RegistryOverrides,
        n \in RTNameInputs, v \in RTValueInputs}
    \cup ExampleInputs

-----------------------------------------------------------------------------
(* Values of the configuration reader (Go interface{} values).  A value  *)
(* carries its dynamic type in kind; a map[string]interface{} carries its  *)
(* entries, a function from keys to values.                                *)

Nil == [kind |-> "nil"]

Str(x) == [kind |-> "string", val |-> x]

IntVal(x) == [kind |-> "int", val |-> x]

List(xs) == [kind |-> "[]interface{}", elems |-> xs]

Map(f) == [kind |-> "map[string]interface{}", entries |-> f]

EmptyEntries == [k \in {} |-> Nil]

NoReader == [k \in {} |-> [val |-> Nil, ok |-> FALSE]]

-----------------------------------------------------------------------------
(* Provider(): construction *)

ConfigureIdle ==
    /\ call = "none"
    /\ d = NoReader
    /\ meta = Nil
    /\ err = Nil
    /\ diags = <<>>

Init ==
    /\ \E in \in ProviderInputs :
        /\ args0 = in.args0
        /\ environ = in.environ
    /\ pc = "start"
    /\ providerName = <<>>
    /\ resourceMap = [k \in {} |-> "resourceCustom"]
    /\ ConfigureIdle

\* Provider(), line 82
ResolveProviderName ==
    /\ pc = "start"
    /\ providerName' = getProviderNameFromBinaryOrEnvironment(environ, args0)
    /\ pc' = "named"
    /\ UNCHANGED <<environ, args0, resourceMap, confVars>>

\* Provider(), lines 86-93
BuildResourceMap ==
    /\ pc = "named"
    /\ resourceMap' = getResourceMap(environ, providerName)
    /\ pc' = "done"
    /\ UNCHANGED <<environ, args0, providerName, confVars>>

Next == ResolveProviderName \/ BuildResourceMap

Spec == Init /\ [][Next]_vars

-----------------------------------------------------------------------------
(* The documented form of a provider binary name, stated on its own:      *)
(* terraform-provider-<name>[-<version>][-pre<digits>]                     *)

OverrideSet == EnvProviderNameVar \in DOMAIN environ

IsDigitRun(s) == s # <<>> /\ \A i \in 1..Len(s) : s[i] \in Digits

IsName(n) == n # <<>> /\ \A i \in 1..Len(n) : n[i] \notin Digits

\* the pieces of s between its dots
RECURSIVE SplitDots(_, _)
SplitDots(s, cur) ==
    IF s = <<>> THEN <<cur>>
    ELSE IF Head(s) = "." THEN <<cur>> \o SplitDots(Tail(s), <<>>)
    ELSE SplitDots(Tail(s), Append(cur, Head(s)))

\* '-' and a dotted numeric version of 1 to 3 components
IsVersionSuffix(v) ==
    /\ v # <<>>
    /\ Head(v) = "-"
    /\ LET cs == SplitDots(Tail(v), <<>>)
       IN  Len(cs) \in 1..3 /\ \A i \in 1..Len(cs) : IsDigitRun(cs[i])

\* '-pre' and at least min digits
IsPreSuffix(p, min) ==
    /\ HasPrefix(p, PreLiteral)
    /\ Len(p) - Len(PreLiteral) >= min
    /\ \A i \in (Len(PreLiteral) + 1)..Len(p) : p[i] \in Digits

\* the ways to cut b into prefix, name, version suffix and pre-release
\* suffix, a pre-release suffix carrying at least min digits
Cuts(b, min) ==
    IF ~HasPrefix(b, BinaryPrefix) THEN {}
    ELSE LET t == From(b, Len(BinaryPrefix) + 1)
             all == {[name |-> SubSeq(t, 1, i),
                      ver  |-> SubSeq(t, i + 1, j),
                      pre  |-> SubSeq(t, j + 1, Len(t))] :
                        <<i, j>> \in {ij \in (1..Len(t)) \X (1..Len(t)) : ij[1] <= ij[2]}}
         IN  {c \in all :
                /\ IsName(c.name)
                /\ c.ver = <<>> \/ IsVersionSuffix(c.ver)
                /\ c.pre = <<>> \/ IsPreSuffix(c.pre, IF c.ver = <<>> THEN min ELSE 0)}

\* the basename is of the documented form (a bare '-pre' counts)
InPattern(b) == Cuts(b, 0) # {}

\* C1: whenever TERRAFORM_UNIVERSE_PROVIDERNAME is set, the resolved
\* identity is its value, whatever the binary name and also when the value
\* is the empty string.
C1_OverrideWins ==
    (pc # "start" /\ OverrideSet) => providerName = environ[EnvProviderNameVar]

\* an empty override has been resolved against a binary name of the form
C1_Witness ==
    /\ pc # "start"
    /\ OverrideSet
    /\ environ[EnvProviderNameVar] = <<>>
    /\ InPattern(Base(args0))
    /\ providerName = <<>>

\* C2: without an override, a basename terraform-provider-<name>, then
\* optionally '-' and a version of 1 to 3 numeric components, then
\* optionally '-pre' and digits, resolves to exactly <name>.  ('-pre' and
\* digits: at least one digit; after a version suffix the code also accepts
\* a bare '-pre', which is covered too.)
C2_NameOfForm ==
    (pc # "start" /\ ~OverrideSet) =>
        \A c \in Cuts(Base(args0), 1) : providerName = c.name

\* a path with a directory, a 3-component version and a pre-release suffix
\* has been resolved to its name
C2_Witness ==
    /\ pc # "start"
    /\ ~OverrideSet
    /\ Base(args0) # args0
    /\ \E c \in Cuts(Base(args0), 1) :
        /\ c.ver # <<>>
        /\ Len(SplitDots(c.ver, <<>>)) = 3
        /\ c.pre # <<>>
        /\ providerName = c.name

\* C3: without an override, a basename that is not of the form resolves to
\* the default "universe" (resolution has no other outcome: the function
\* returns a name and nothing else).
C3_DefaultOtherwise ==
    (pc # "start" /\ ~OverrideSet /\ ~InPattern(Base(args0)))
        => providerName = DefaultProviderName

\* a name with the prefix and a version of 4 components got the default
C3_Witness ==
    /\ pc # "start"
    /\ ~OverrideSet
    /\ HasPrefix(Base(args0), BinaryPrefix)
    /\ \E i \in 1..Len(args0) :
        /\ IsName(SubSeq(args0, Len(BinaryPrefix) + 1, i))
        /\ Len(SplitDots(From(args0, i + 1), <<>>)) = 4
        /\ \A j \in (i + 2)..Len(args0) : args0[j] \in Digits \cup {"."}
    /\ ~InPattern(Base(args0))
    /\ providerName = DefaultProviderName

-----------------------------------------------------------------------------
(* The registry, stated on its own *)

\* the white-space-separated tokens of s: its maximal runs without space
Tokens(s) ==
    {SubSeq(s, ij[1], ij[2]) :
        ij \in {x \in (1..Len(s)) \X (1..Len(s)) :
                  /\ x[1] <= x[2]
                  /\ \A k \in x[1]..x[2] : s[k] \notin Space
                  /\ x[1] = 1 \/ s[x[1] - 1] \in Space
                  /\ x[2] = Len(s) \/ s[x[2] + 1] \in Space}}

Norm(t, I) == IF HasPrefix(t, I \o <<"_">>) THEN t ELSE I \o <<"_">> \o t

RTVarSet == ResourceTypesVarName(providerName) \in DOMAIN environ

RTValue == environ[ResourceTypesVarName(providerName)]

\* C4: the registered names are exactly the identity I together with
\* norm(t) for every token t of TERRAFORM_<uppercase(I)>_RESOURCETYPES;
\* without the variable, or with only white space in it, exactly {I}.
C4_RegistryExact ==
    pc = "done" =>
        /\ RTVarSet =>
            DOMAIN resourceMap =
                {providerName} \cup {Norm(t, providerName) : t \in Tokens(RTValue)}
        /\ (~RTVarSet \/ \A i \in 1..Len(RTValue) : RTValue[i] \in Space)
                => DOMAIN resourceMap = {providerName}

\* a variable with a prefixed token, an unprefixed one and a repeated one
C4_Witness ==
    /\ pc = "done"
    /\ RTVarSet
    /\ \E t \in Tokens(RTValue) : HasPrefix(t, providerName \o <<"_">>)
    /\ \E t \in Tokens(RTValue) : ~HasPrefix(t, providerName \o <<"_">>)
    /\ Len(Fields(RTValue)) > Cardinality(Tokens(RTValue))
    /\ Cardinality(DOMAIN resourceMap) <= Len(Fields(RTValue))

\* C5: every key of the registered resource map is the identity or starts
\* with identity + '_', and the identity is always a key.
C5_Namespace ==
    pc = "done" =>
        /\ providerName \in DOMAIN resourceMap
        /\ \A k \in DOMAIN resourceMap :
            k = providerName \/ HasPrefix(k, providerName \o <<"_">>)

\* the empty identity with several registered names
C5_Witness ==
    /\ pc = "done"
    /\ providerName = <<>>
    /\ Cardinality(DOMAIN resourceMap) >= 3

-----------------------------------------------------------------------------
(* providerConfigure *)

\* the keys the loop reads, in its order
ConfigKeys == <<"id_key", "executor", "script", "environment", "javascript">>

\* d.GetOk(key): the value and whether it was supplied
GetOk(rd, key) == rd[key]

\* configurationData[key] = val
Put(m, k, v) == [x \in DOMAIN m \cup {k} |-> IF x = k THEN v ELSE m[x]]

\* the value stored whether or not it was supplied
ConfigurationEntryZeroFilled(data, key, g) == Put(data, key, g.val)

\* the body of the loop for one key, g being what GetOk returned
ConfigurationEntry(data, key, g) ==
    IF ~g.ok THEN data ELSE Put(data, key, g.val)

RECURSIVE CollectConfiguration(_, _, _)
CollectConfiguration(rd, keys, data) ==
    IF keys = <<>> THEN data
    ELSE CollectConfiguration(rd, Tail(keys),
            ConfigurationEntry(data, Head(keys), GetOk(rd, Head(keys))))

\* a check of the values inside the map as well
IsMapOfStrings(e) ==
    /\ e.kind = "map[string]interface{}"
    /\ \A k \in DOMAIN e.entries : e.entries[k].kind = "string"

\* no check at all
IsAnything(e) == TRUE

\* the type assertion e.(map[string]interface{})
IsMapStringInterface(e) == e.kind = "map[string]interface{}"

\* fmt.Errorf("environment - expected map[string]interface{} bit got %#v", e)
EnvironmentError(e) == [kind |-> "error", got |-> e]

\* the map built so far returned together with the error
providerConfigureReturningPartial(rd) ==
    LET configurationData == CollectConfiguration(rd, ConfigKeys, EmptyEntries)
        g == GetOk(rd, "environment")
    IN  IF g.ok /\ ~(g.val.kind = "map[string]interface{}")
        THEN [result |-> Map(configurationData), err |-> EnvironmentError(g.val)]
        ELSE [result |-> Map(configurationData), err |-> Nil]

providerConfigure(rd) ==
    LET configurationData == CollectConfiguration(rd, ConfigKeys, EmptyEntries)
        g == GetOk(rd, "environment")
    IN  IF g.ok /\ ~IsMapStringInterface(g.val)
        THEN [result |-> Nil, err |-> EnvironmentError(g.val)]
        ELSE [result |-> Map(configurationData), err |-> Nil]

\* diag.FromErr
FromErr(e) == <<[severity |-> "Error", summary |-> e]>>

\* the error dropped on the way to the host
providerConfigureV2DroppingError(rd) ==
    LET r == providerConfigure(rd)
    IN  [result |-> r.result, diags |-> <<>>]

providerConfigureV2(rd) ==
    LET r == providerConfigure(rd)
    IN  IF r.err # Nil
        THEN [result |-> r.result, diags |-> FromErr(r.err)]
        ELSE [result |-> r.result, diags |-> <<>>]

-----------------------------------------------------------------------------
(* Inputs of a configure call: what the reader answers for each key *)

\* most entries of an enumerated environment map
MaxEnvEntries == 2

EnvKeyPool == <<"PATH", "HOME", "LANG", "TERM", "USER", "SHELL">>

EnvKeyInputs == {EnvKeyPool[i] : i \in 1..MaxEnvEntries}

\* values of one entry: strings, and what a flat map must not hold
ElemInputs ==
    {Str("/bin"), Str(""), IntVal("7"), List(<<Str("x")>>),
     Map([k \in {"X"} |-> Str("y")])}

EnvMapInputs ==
    {Map(f) : f \in UNION {[ks -> ElemInputs] : ks \in SUBSET EnvKeyInputs}}

EnvironmentAnswers ==
    {[val |-> Nil, ok |-> FALSE], [val |-> Map(EmptyEntries), ok |-> FALSE]}
    \cup {[val |-> v, ok |-> TRUE] :
            v \in EnvMapInputs \cup
                  {Nil, Str("PATH=/bin"), IntVal("7"), List(<<Str("PATH=/bin")>>)}}

Unsupplied == [val |-> Str(""), ok |-> FALSE]

ReaderKeys == {"id_key", "executor", "script", "environment", "javascript", "other"}

ReaderInputs ==
    {[k \in ReaderKeys |->
        CASE k = "id_key" -> a
          [] k = "executor" -> b
          [] k = "script" -> c
          [] k = "environment" -> e
          [] k = "javascript" -> j
          [] OTHER -> o] :
        a \in {Unsupplied, [val |-> Str("id"), ok |-> TRUE]},
        b \in {Unsupplied, [val |-> Str("python"), ok |-> TRUE],
               [val |-> IntVal("7"), ok |-> TRUE]},
        c \in {Unsupplied, [val |-> Str("crud.py"), ok |-> TRUE]},
        e \in EnvironmentAnswers,
        j \in {Unsupplied, [val |-> List(<<Str("x")>>), ok |-> TRUE]},
        o \in {Unsupplied, [val |-> Str("extra"), ok |-> TRUE]}}

-----------------------------------------------------------------------------
(* Configuration events on a constructed provider *)

\* the provider is constructed and the host holds the configuration d
InitConfigure ==
    /\ args0 = DebugTest
    /\ environ = EnvOf({})
    /\ pc = "done"
    /\ providerName = getProviderNameFromBinaryOrEnvironment(environ, args0)
    /\ resourceMap = getResourceMap(environ, providerName)
    /\ d \in ReaderInputs
    /\ call = "none"
    /\ meta = Nil
    /\ err = Nil
    /\ diags = <<>>

\* a direct call of providerConfigure(d)
ProviderConfigure ==
    /\ pc = "done"
    /\ call = "none"
    /\ LET r == providerConfigure(d)
       IN  /\ meta' = r.result
           /\ err' = r.err
    /\ call' = "plain"
    /\ UNCHANGED <<provVars, d, diags>>

\* the host's configure call, providerConfigureV2(ctx, d)
ProviderConfigureV2 ==
    /\ pc = "done"
    /\ call = "none"
    /\ LET r == providerConfigureV2(d)
       IN  /\ meta' = r.result
           /\ diags' = r.diags
    /\ call' = "v2"
    /\ UNCHANGED <<provVars, d, err>>

NextConfigure == ProviderConfigure \/ ProviderConfigureV2

ConfigureSpec == InitConfigure /\ [][NextConfigure]_vars

-----------------------------------------------------------------------------
(* The snapshot, stated on its own *)

RecognizedKeys == {"id_key", "executor", "script", "environment", "javascript"}

Supplied == {k \in RecognizedKeys : d[k].ok}

Succeeded ==
    \/ call = "plain" /\ err = Nil
    \/ call = "v2" /\ diags = <<>>

\* an 'environment' value was supplied and it is not a mapping
WrongShape ==
    /\ d["environment"].ok
    /\ d["environment"].val.kind # "map[string]interface{}"

\* a mapping all of whose values are strings
IsFlatStringMap(v) ==
    /\ v.kind = "map[string]interface{}"
    /\ \A k \in DOMAIN v.entries : v.entries[k].kind = "string"

\* C6: on success the snapshot's keys are exactly the recognized keys the
\* reader reports as supplied, each with the value the reader returned.
C6_SparseSnapshot ==
    (call # "none" /\ Succeeded) =>
        /\ meta.kind = "map[string]interface{}"
        /\ DOMAIN meta.entries = Supplied
        /\ \A k \in Supplied : meta.entries[k] = d[k].val

\* only executor and script supplied (and a key that is not recognized)
C6_Witness ==
    /\ call = "plain"
    /\ err = Nil
    /\ Supplied = {"executor", "script"}
    /\ d["other"].ok
    /\ DOMAIN meta.entries = {"executor", "script"}

\* C7: normalization returns an error exactly when an 'environment' value
\* was supplied and is not a mapping.
C7_ErrorIffWrongShape ==
    /\ call = "plain" => (err # Nil <=> WrongShape)
    /\ call = "v2" => (diags # <<>> <=> WrongShape)

\* an error for an environment given as a single string
C7_Witness ==
    /\ call = "plain"
    /\ err # Nil
    /\ d["environment"] = [val |-> Str("PATH=/bin"), ok |-> TRUE]

\* C8 as amended: a snapshot returned without error has no 'environment'
\* entry or one that is a string-keyed mapping, the very value supplied;
\* the values inside the mapping are not examined.
C8_EnvironmentIsMapping ==
    (call # "none" /\ Succeeded /\ "environment" \in DOMAIN meta.entries) =>
        /\ meta.entries["environment"].kind = "map[string]interface{}"
        /\ meta.entries["environment"] = d["environment"].val

\* a snapshot whose environment mapping holds a value that is no string
C8_Witness ==
    /\ call # "none"
    /\ Succeeded
    /\ "environment" \in DOMAIN meta.entries
    /\ ~IsFlatStringMap(meta.entries["environment"])

\* C8 as stated: a snapshot returned without error has no 'environment'
\* entry or one that is a flat mapping from strings to strings.
C8_EnvironmentIsFlat ==
    (call # "none" /\ Succeeded /\ "environment" \in DOMAIN meta.entries) =>
        IsFlatStringMap(meta.entries["environment"])

\* C9: through the configure entry point, a failed normalization gives a
\* diagnostic and no snapshot, a successful one the complete snapshot and
\* no diagnostic.
C9_AllOrNothing ==
    call = "v2" =>
        /\ WrongShape => (diags # <<>> /\ meta = Nil)
        /\ ~WrongShape =>
            /\ diags = <<>>
            /\ meta = Map([k \in Supplied |-> d[k].val])

\* a failed configuration of a reader that supplied other keys as well
C9_Witness ==
    /\ call = "v2"
    /\ WrongShape
    /\ Supplied # {"environment"}
    /\ Len(diags) = 1
    /\ diags[1].severity = "Error"
    /\ meta = Nil

\* C10 as amended: when normalization fails for the shape of 'environment',
\* the value returned with the error is nil, not the map built so far.
C10_NilOnError ==
    (call = "plain" /\ err # Nil) => meta = Nil

\* an error for a reader that supplied executor and script as well
C10_Witness ==
    /\ call = "plain"
    /\ err # Nil
    /\ {"executor", "script"} \subseteq Supplied
    /\ meta = Nil

\* C10 as stated: the value returned with the error is the map holding
\* every supplied recognized key.
C10_PartialMapOnError ==
    (call = "plain" /\ err # Nil) => meta = Map([k \in Supplied |-> d[k].val])

====
